---------------------------- MODULE Spec2Model ----------------------------
(***************************************************************************)
(* A model of bible.py: the start-up pipeline (load_nrc_lexicon,           *)
(* load_and_prepare_bible, analyze_sentiments) and the queries the GUI     *)
(* callbacks make afterwards (get_top_verses, rank_books, the grouping of  *)
(* show_sentiment_heatmap).                                                *)
(*                                                                         *)
(* Scores are scaled integers.  A mean is kept as the exact pair           *)
(* [sum, count] and two means are compared by cross-multiplication.        *)
(***************************************************************************)
EXTENDS Integers, Sequences, FiniteSets, TLC

VARIABLES
    pc,           \* position of the main program (lines 278-365)
    lexFile,      \* the lexicon file on disk: Missing, or its sequence of lines
    punkt,        \* whether nltk's tokenizer resource is usable
    sia,          \* the polarity oracle (VADER): text -> neg/neu/pos/compound
    sortTie,      \* how this build's quicksort orders equal keys
    bible_csv,    \* the rows of bible.csv
    nrc_lexicon,  \* module global set at line 280
    bible_df,     \* module global set at line 281
    analyzed_df,  \* module global set at line 282
    status_bar,   \* the status text fixed at lines 355-363
    result        \* what the last query returned

vars == <<pc, lexFile, punkt, sia, sortTie, bible_csv, nrc_lexicon, bible_df,
          analyzed_df, status_bar, result>>

---------------------------------------------------------------------------
(* Bounds of the model *)

MaxLines == 2
MaxWords == 2
MaxVerses == 3
MaxBook == 2
MaxChapter == 2

(* get_top_verses keeps sorted_df.head(10) *)
HeadN == 10

---------------------------------------------------------------------------
(* Generic helpers *)

(* dict.get(key) when the key is absent *)
None == "None"

Min(a, b) == IF a <= b THEN a ELSE b

Reverse(s) == [i \in 1..Len(s) |-> s[Len(s) + 1 - i]]

SeqsUpTo(S, n) == UNION {[1..k -> S] : k \in 0..n}

Perms(n) == {p \in [1..n -> 1..n] : \A i, j \in 1..n : i # j => p[i] # p[j]}

(* F applied to the value of e, e evaluated once *)
Eval(e, F(_)) == CHOOSE y \in {F(x) : x \in {e}} : TRUE

RECURSIVE SumSeq(_)
SumSeq(s) == IF s = <<>> THEN 0 ELSE Head(s) + SumSeq(Tail(s))

---------------------------------------------------------------------------
(* Constants of the program *)

BOOK_NAMES == <<"Genesis", "Exodus", "Leviticus", "Numbers", "Deuteronomy">>

(* Python's string order on the book names above, as a rank. *)
NameRank ==
    [n \in {"Deuteronomy", "Exodus", "Genesis", "Leviticus", "Numbers"} |->
        CASE n = "Deuteronomy" -> 1
          [] n = "Exodus" -> 2
          [] n = "Genesis" -> 3
          [] n = "Leviticus" -> 4
          [] n = "Numbers" -> 5]

EMOTIONS == <<"Joy", "Trust", "Fear", "Surprise", "Sadness", "Disgust", "Anger",
              "Anticipation">>

emotions == <<"joy", "trust", "fear", "surprise", "sadness", "disgust", "anger",
              "anticipation">>

EmotionSet == {emotions[i] : i \in 1..Len(emotions)}

PolarityColumns == {"neg", "neu", "pos", "compound"}

---------------------------------------------------------------------------
(* load_nrc_lexicon.  A line is the sequence of its tab-separated fields   *)
(* as written in the file; the third field is text that int() must parse.  *)

(* line.strip(): leading and trailing white space goes, and with it the    *)
(* empty fields (and their tabs) at either end of the line.                *)
RECURSIVE StripLeft(_)
StripLeft(fs) ==
    IF Len(fs) > 1 /\ Head(fs) = "" THEN StripLeft(Tail(fs)) ELSE fs

strip_split(line) == Reverse(StripLeft(Reverse(StripLeft(line))))

IntText == {"0", "1", "2"}

(* int(value) on text that is a number *)
int(value) ==
    CASE value = "0" -> 0
      [] value = "1" -> 1
      [] value = "2" -> 2

(* lexicon[word][emotion] = value on a defaultdict(dict) *)
SetEntry(lexicon, word, emotion, value) ==
    LET old == IF word \in DOMAIN lexicon THEN lexicon[word] ELSE <<>>
        new == [e \in (DOMAIN old) \cup {emotion} |->
                   IF e = emotion THEN value ELSE old[e]]
    IN [w \in (DOMAIN lexicon) \cup {word} |->
           IF w = word THEN new ELSE lexicon[w]]

(* The for loop of lines 65-69 over the lines not yet read.  The outcome   *)
(* is the table, or ValueError when int() meets text that is no number.    *)
RECURSIVE ReadLines(_, _)
ReadLines(lines, lexicon) ==
    IF lines = <<>> THEN [error |-> FALSE, lexicon |-> lexicon]
    ELSE LET parts == strip_split(Head(lines))
         IN IF Len(parts) = 3
            THEN IF parts[3] \in IntText
                 THEN ReadLines(Tail(lines),
                                SetEntry(lexicon, parts[1], parts[2], int(parts[3])))
                 ELSE [error |-> TRUE, lexicon |-> lexicon]
            ELSE ReadLines(Tail(lines), lexicon)

(* The value of nrc_lexicon: Python's None, or the dict that was read. *)
NoneLexicon == [isNone |-> TRUE, dict |-> <<>>]

load_nrc_lexicon(file) ==
    IF ~file.exists
    THEN [error |-> FALSE, lexicon |-> NoneLexicon]
    ELSE LET r == ReadLines(file.lines, <<>>)
         IN [error |-> r.error, lexicon |-> [isNone |-> FALSE, dict |-> r.lexicon]]

(* bool(nrc_lexicon): None and the empty dict are false *)
Truthy(lexicon) == ~lexicon.isNone /\ DOMAIN lexicon.dict # {}

---------------------------------------------------------------------------
(* analyze_emotions.  A text is the sequence of its words as written.      *)

(* str.lower() on one word *)
lower(w) ==
    CASE w = "Light" -> "light"
      [] w = "Dark" -> "dark"
      [] OTHER -> w

(* nltk.word_tokenize(text.lower()): the words, or LookupError when the    *)
(* punkt resource is not usable.                                           *)
word_tokenize(text, ok) ==
    [error |-> ~ok, words |-> IF ok THEN [i \in 1..Len(text) |-> lower(text[i])] ELSE <<>>]

ZeroScores == [e \in EmotionSet |-> 0]

(* lines 79-83: the loops over the words and over the 8 emotions *)
RECURSIVE AddWords(_, _, _)
AddWords(words, lexicon, emotion_scores) ==
    IF words = <<>> THEN emotion_scores
    ELSE LET word == Head(words)
             next == IF word \in DOMAIN lexicon
                     THEN [e \in EmotionSet |->
                              IF e \in DOMAIN lexicon[word]
                              THEN emotion_scores[e] + lexicon[word][e]
                              ELSE emotion_scores[e]]
                     ELSE emotion_scores
         IN AddWords(Tail(words), lexicon, next)

(* analyze_emotions without the .lower() of line 78 *)
analyze_emotions_nolower(text, lexicon, ok) ==
    IF ~ok THEN ZeroScores ELSE AddWords(text, lexicon.dict, ZeroScores)

analyze_emotions(text, lexicon, ok) ==
    LET tok == word_tokenize(text, ok)
    IN IF tok.error THEN ZeroScores
       ELSE AddWords(tok.words, lexicon.dict, ZeroScores)

---------------------------------------------------------------------------
(* Data frames.  A frame is the sequence of its rows; a row is a record of *)
(* its columns plus "index", the row's pandas index label (0, 1, ...).     *)

Columns(df) == IF df = <<>> THEN {} ELSE (DOMAIN df[1]) \ {"index"}

(* load_and_prepare_bible: csv columns id, b, c, v, t become Book (the     *)
(* name BOOK_NAMES[b - 1] of Python's 0-based list), Chapter, Verse, Text. *)
load_and_prepare_bible(csv) ==
    [i \in 1..Len(csv) |->
        [index |-> i - 1,
         Book |-> BOOK_NAMES[csv[i].b],
         Chapter |-> csv[i].c,
         Verse |-> csv[i].v,
         Text |-> csv[i].t]]

(* analyze_sentiments: pd.concat([df, sentiment_df(, emotion_df)], axis=1) *)
analyze_sentiments(df, lexicon, oracle, ok) ==
    [i \in 1..Len(df) |->
        IF Truthy(lexicon)
        THEN analyze_emotions(df[i].Text, lexicon, ok) @@ oracle[df[i].Text] @@ df[i]
        ELSE oracle[df[i].Text] @@ df[i]]

---------------------------------------------------------------------------
(* Sorting as pandas does it: DataFrame.sort_values -> nargsort ->         *)
(* ndarray.argsort(kind="quicksort").  quicksort is not a stable sort: the *)
(* order it leaves equal keys in is the build's, here tie, which ranks the *)
(* positions of the array it is given.                                     *)

(* A number that is sorted by is the exact fraction sum/count, count > 0:  *)
(* a score v is v/1, a mean is the sum of its group over the group's size. *)
Num(v) == [sum |-> v, count |-> 1]

(* order of two such numbers *)
MeanLt(a, b) == a.sum * b.count < b.sum * a.count

(* ascending argsort of the positions of items *)
argsort(items, tie) ==
    LET n == Len(items)
        Before(i, j) == \/ MeanLt(items[i], items[j])
                        \/ ~MeanLt(items[j], items[i]) /\ tie[i] < tie[j]
        rank == [i \in 1..n |-> 1 + Cardinality({j \in 1..n : Before(j, i)})]
    IN Eval(rank, LAMBDA rk : [r \in 1..n |-> CHOOSE i \in 1..n : rk[i] = r])

(* nargsort(items, ascending=False): reverse, argsort, reverse back *)
nargsort_desc(items, tie) ==
    Eval(items, LAMBDA its :
        LET n == Len(its)
            idx == Reverse([i \in 1..n |-> i])
        IN Eval(argsort(Reverse(its), tie), LAMBDA sorted :
               Reverse([r \in 1..n |-> idx[sorted[r]]])))

(* sort_values(..., inplace=True): the frame itself is reordered *)
sort_values_inplace(df, by, tie) ==
    Eval(nargsort_desc([i \in 1..Len(df) |-> Num(df[i][by])], tie), LAMBDA order :
        Eval([r \in 1..Len(df) |-> df[order[r]]], LAMBDA sorted :
            [self |-> sorted, out |-> sorted]))

(* sort_values(by=col, ascending=False); inplace defaults to False, so the *)
(* frame itself ("self") stays as it is and a new frame ("out") is made.   *)
sort_values(df, by, tie) ==
    Eval(nargsort_desc([i \in 1..Len(df) |-> Num(df[i][by])], tie), LAMBDA order :
        [self |-> df, out |-> [r \in 1..Len(df) |-> df[order[r]]]])

(* df.head(n) *)
head(df, n) == SubSeq(df, 1, Min(n, Len(df)))

(* df[['Book', 'Chapter', 'Verse', 'Text']] *)
VerseColumns(df) ==
    [i \in 1..Len(df) |->
        [index |-> df[i].index, Book |-> df[i].Book, Chapter |-> df[i].Chapter,
         Verse |-> df[i].Verse, Text |-> df[i].Text]]

---------------------------------------------------------------------------
(* get_top_verses *)

emotion_map ==
    [e \in {EMOTIONS[i] : i \in 1..Len(EMOTIONS)} |->
        CASE e = "Joy" -> "joy"
          [] e = "Trust" -> "trust"
          [] e = "Fear" -> "fear"
          [] e = "Surprise" -> "surprise"
          [] e = "Sadness" -> "sadness"
          [] e = "Disgust" -> "disgust"
          [] e = "Anger" -> "anger"
          [] e = "Anticipation" -> "anticipation"]

(* sentiment_map with 'Surprise': 'pos' *)
sentiment_map_surprise_pos ==
    [e \in {EMOTIONS[i] : i \in 1..Len(EMOTIONS)} |->
        IF e \in {"Joy", "Trust", "Anticipation", "Surprise"} THEN "pos" ELSE "neg"]

sentiment_map ==
    [e \in {EMOTIONS[i] : i \in 1..Len(EMOTIONS)} |->
        CASE e = "Joy" -> "pos"
          [] e = "Trust" -> "pos"
          [] e = "Fear" -> "neg"
          [] e = "Surprise" -> "neu"
          [] e = "Sadness" -> "neg"
          [] e = "Disgust" -> "neg"
          [] e = "Anger" -> "neg"
          [] e = "Anticipation" -> "pos"]

(* d.get(key, default) *)
get(d, key, default) == IF key \in DOMAIN d THEN d[key] ELSE default

(* The column lines 122-136 choose to sort by.  The mode a query consults  *)
(* is the truth value of the global nrc_lexicon, read when the query runs. *)
SortColumn(emotion, lexicon, df) ==
    LET nrc_emotion == get(emotion_map, emotion, None)
    IN IF Truthy(lexicon) /\ nrc_emotion \in Columns(df)
       THEN nrc_emotion
       ELSE get(sentiment_map, emotion, "neu")

(* A query's answer.  raised: the call ended in an exception.  Only the    *)
(* fields of its kind are meaningful; the others keep these defaults.      *)
NoResult ==
    [kind |-> "none", emotion |-> "", raised |-> FALSE, mode |-> FALSE, by |-> "",
     rows |-> <<>>, groups |-> <<>>, index |-> <<>>, columns |-> <<>>,
     cells |-> <<>>]

get_top_verses(emotion, lexicon, df, tie) ==
    Eval(SortColumn(emotion, lexicon, df), LAMBDA by :
        Eval(sort_values(df, by, tie), LAMBDA sorted :
            [self |-> sorted.self,
             out |-> [NoResult EXCEPT !.kind = "top", !.emotion = emotion,
                                      !.mode = Truthy(lexicon), !.by = by,
                                      !.rows = VerseColumns(head(sorted.out, HeadN))]]))

---------------------------------------------------------------------------
(* groupby(...).mean(): one group per distinct key, the groups in          *)
(* ascending key order (groupby's sort=True), each with the mean of the    *)
(* compound column over its rows.                                          *)

(* the key of a row under groupby(by), by the list of the key columns *)
KeyOf(row, by) == [j \in 1..Len(by) |-> row[by[j]]]

(* the order of two values of a key column: Python's order of the strings  *)
(* for Book, of the numbers for Chapter                                    *)
ValueLt(col, a, b) == IF col = "Book" THEN NameRank[a] < NameRank[b] ELSE a < b

(* the order of two keys: by the first column, then by the next *)
KeyLt(by, a, b) ==
    \E j \in 1..Len(by) :
        /\ \A h \in 1..(j - 1) : a[h] = b[h]
        /\ ValueLt(by[j], a[j], b[j])

SortedKeys(keys, by) ==
    [r \in 1..Cardinality(keys) |->
        CHOOSE k \in keys : Cardinality({x \in keys : KeyLt(by, x, k)}) = r - 1]

(* the mean of compound over every row of the frame, whatever its group *)
RECURSIVE MeanOver_all_rows(_, _, _, _)
MeanOver_all_rows(df, by, key, acc) ==
    IF df = <<>> THEN acc
    ELSE MeanOver_all_rows(Tail(df), by, key,
                           [sum |-> acc.sum + Head(df).compound,
                            count |-> acc.count + 1])

(* the sum and the count of compound over the rows of the group of key *)
RECURSIVE MeanOver(_, _, _, _)
MeanOver(df, by, key, acc) ==
    IF df = <<>> THEN acc
    ELSE MeanOver(Tail(df), by, key,
                  IF KeyOf(Head(df), by) = key
                  THEN [sum |-> acc.sum + Head(df).compound, count |-> acc.count + 1]
                  ELSE acc)

groupby_mean(df, by) ==
    LET keys == SortedKeys({KeyOf(df[i], by) : i \in 1..Len(df)}, by)
    IN [g \in 1..Len(keys) |->
           [key |-> keys[g],
            compound |-> MeanOver(df, by, keys[g], [sum |-> 0, count |-> 0])]]

(* rank_books with ascending=True *)
rank_books_ascending(df, tie) ==
    LET book_sentiments == groupby_mean(df, <<"Book">>)
        n == Len(book_sentiments)
    IN Eval(argsort([g \in 1..n |-> book_sentiments[g].compound], tie),
            LAMBDA order :
               [self |-> df,
                out |-> [NoResult EXCEPT
                            !.kind = "books",
                            !.groups = [r \in 1..n |->
                                           [key |-> book_sentiments[order[r]].key[1],
                                            compound |-> book_sentiments[order[r]].compound]]]])

(* rank_books: groupby(['Book']).mean(), then sort_values(by='compound',   *)
(* ascending=False) on the frame of the groups.                            *)
rank_books(df, tie) ==
    LET book_sentiments == groupby_mean(df, <<"Book">>)
        n == Len(book_sentiments)
    IN Eval(nargsort_desc([g \in 1..n |-> book_sentiments[g].compound], tie),
            LAMBDA order :
               [self |-> df,
                out |-> [NoResult EXCEPT
                            !.kind = "books",
                            !.groups = [r \in 1..n |->
                                           [key |-> book_sentiments[order[r]].key[1],
                                            compound |-> book_sentiments[order[r]].compound]]]])

(* the values of a set in ascending order, as column col orders them *)
SortedValues(values, col) ==
    LET keys == SortedKeys({<<v>> : v \in values}, <<col>>)
    IN [r \in 1..Len(keys) |-> keys[r][1]]

(* show_sentiment_heatmap, line 221:                                       *)
(* groupby(['Book', 'Chapter'])['compound'].mean().unstack() is a grid,    *)
(* rows the books and columns the chapters, both in ascending order; a     *)
(* cell without a group is NaN.                                            *)
heatmap_data(df) ==
    LET means == groupby_mean(df, <<"Book", "Chapter">>)
        n == Len(means)
        books == {means[g].key[1] : g \in 1..n}
        chapters == {means[g].key[2] : g \in 1..n}
    IN [self |-> df,
        out |-> [NoResult EXCEPT
                    !.kind = "heatmap",
                    !.index = SortedValues(books, "Book"),
                    !.columns = SortedValues(chapters, "Chapter"),
                    !.cells = [k \in books \X chapters |->
                                  IF \E g \in 1..n : means[g].key = k
                                  THEN LET g == CHOOSE g \in 1..n : means[g].key = k
                                       IN [nan |-> FALSE,
                                           sum |-> means[g].compound.sum,
                                           count |-> means[g].compound.count]
                                  ELSE [nan |-> TRUE, sum |-> 0, count |-> 0]]]]

---------------------------------------------------------------------------
(* The main program, lines 278-365 *)

(* line 280: nrc_lexicon = load_nrc_lexicon().  The ValueError of int() is *)
(* caught nowhere: the program ends with a traceback.                      *)
LoadLexicon ==
    /\ pc = "start"
    /\ LET r == load_nrc_lexicon(lexFile)
       IN IF r.error
          THEN pc' = "crashed" /\ UNCHANGED nrc_lexicon
          ELSE pc' = "lexicon" /\ nrc_lexicon' = r.lexicon
    /\ UNCHANGED <<lexFile, punkt, sia, sortTie, bible_csv, bible_df, analyzed_df,
                   status_bar, result>>

(* line 281 *)
LoadBible ==
    /\ pc = "lexicon"
    /\ bible_df' = load_and_prepare_bible(bible_csv)
    /\ pc' = "bible"
    /\ UNCHANGED <<lexFile, punkt, sia, sortTie, bible_csv, nrc_lexicon, analyzed_df,
                   status_bar, result>>

(* line 282 *)
AnalyzeSentiments ==
    /\ pc = "bible"
    /\ analyzed_df' = analyze_sentiments(bible_df, nrc_lexicon, sia, punkt)
    /\ pc' = "analyzed"
    /\ UNCHANGED <<lexFile, punkt, sia, sortTie, bible_csv, nrc_lexicon, bible_df,
                   status_bar, result>>

(* lines 285-365: the window is built, the status bar text is chosen once, *)
(* and root.mainloop() starts serving the callbacks.                       *)
BuildGui ==
    /\ pc = "analyzed"
    /\ status_bar' = IF Truthy(nrc_lexicon)
                     THEN "NRC Emotion Lexicon loaded"
                     ELSE "Using basic sentiment analysis (NRC lexicon not found)"
    /\ pc' = "mainloop"
    /\ UNCHANGED <<lexFile, punkt, sia, sortTie, bible_csv, nrc_lexicon, bible_df,
                   analyzed_df, result>>

(* The names a caller may pass to get_top_verses: the 8 buttons, and one   *)
(* name that is none of them.                                              *)
QueryNames == {EMOTIONS[i] : i \in 1..Len(EMOTIONS)} \cup {"Hope"}

(* get_top_verses loading the lexicon again when it is called *)
GetTopVerses_reload(emotion) ==
    /\ pc = "mainloop"
    /\ LET r == get_top_verses(emotion, load_nrc_lexicon(lexFile).lexicon,
                               analyzed_df, sortTie)
       IN /\ analyzed_df' = r.self
          /\ result' = r.out
    /\ UNCHANGED <<pc, lexFile, punkt, sia, sortTie, bible_csv, nrc_lexicon, bible_df,
                   status_bar>>

GetTopVerses(emotion) ==
    /\ pc = "mainloop"
    /\ LET r == get_top_verses(emotion, nrc_lexicon, analyzed_df, sortTie)
       IN /\ analyzed_df' = r.self
          /\ result' = r.out
    /\ UNCHANGED <<pc, lexFile, punkt, sia, sortTie, bible_csv, nrc_lexicon, bible_df,
                   status_bar>>

ShowBookRankings ==
    /\ pc = "mainloop"
    /\ LET r == rank_books(analyzed_df, sortTie)
       IN /\ analyzed_df' = r.self
          /\ result' = r.out
    /\ UNCHANGED <<pc, lexFile, punkt, sia, sortTie, bible_csv, nrc_lexicon, bible_df,
                   status_bar>>

ShowSentimentHeatmap ==
    /\ pc = "mainloop"
    /\ LET r == heatmap_data(analyzed_df)
       IN /\ analyzed_df' = r.self
          /\ result' = r.out
    /\ UNCHANGED <<pc, lexFile, punkt, sia, sortTie, bible_csv, nrc_lexicon, bible_df,
                   status_bar>>

(* The environment: while the program serves, the lexicon file that was    *)
(* missing is put in place (os.path.exists(path) would now be true).       *)
NRCSample == <<<<"light", "joy", "1">>, <<"light", "trust", "1">>,
               <<"dark", "fear", "1">>, <<"dark", "sadness", "2">>>>

LexiconAppears ==
    /\ pc = "mainloop"
    /\ ~lexFile.exists
    /\ lexFile' = [exists |-> TRUE, lines |-> NRCSample]
    /\ UNCHANGED <<pc, punkt, sia, sortTie, bible_csv, nrc_lexicon, bible_df,
                   analyzed_df, status_bar, result>>

Startup ==
    \/ LoadLexicon
    \/ LoadBible
    \/ AnalyzeSentiments
    \/ BuildGui

(* Runs in which only the group queries are made *)
NextGroups ==
    \/ Startup
    \/ ShowBookRankings
    \/ ShowSentimentHeatmap

Next ==
    \/ LoadLexicon
    \/ LoadBible
    \/ AnalyzeSentiments
    \/ BuildGui
    \/ \E emotion \in QueryNames : GetTopVerses(emotion)
    \/ ShowBookRankings
    \/ ShowSentimentHeatmap
    \/ LexiconAppears

---------------------------------------------------------------------------
(* The inputs of a run *)

NoFile == [exists |-> FALSE, lines |-> <<>>]

(* Lines of a lexicon file: well-formed ones (one for a category outside   *)
(* the 8, as the NRC file has), a repeated key with another value, a line  *)
(* with a trailing tab, a line with two fields, a blank line, and a line   *)
(* whose third field is no number.                                         *)
LineKinds ==
    {<<"light", "joy", "1">>, <<"light", "joy", "2">>, <<"dark", "fear", "1">>,
     <<"light", "positive", "1">>, <<"dark", "fear", "0", "">>,
     <<"light", "joy">>, <<"">>, <<"dark", "fear", "x">>}

Words == {"Light", "light", "dark"}

(* What VADER may answer for a text: neg, neu, pos in tenths (they sum to  *)
(* 1) and compound in tenths.                                              *)
PolarityScores ==
    {[neg |-> 0, neu |-> 5, pos |-> 5, compound |-> 6],
     [neg |-> 6, neu |-> 4, pos |-> 0, compound |-> -7]}

VerseTexts == {<<"Light", "light">>, <<"dark">>, <<"Light", "dark">>}

TopTexts == {<<"Light", "light">>, <<"dark">>}

(* An oracle that tells the three verse texts apart *)
VaderSample ==
    [t \in VerseTexts |->
        CASE t = <<"Light", "light">> -> [neg |-> 0, neu |-> 5, pos |-> 5, compound |-> 6]
          [] t = <<"dark">> -> [neg |-> 6, neu |-> 4, pos |-> 0, compound |-> -7]
          [] OTHER -> [neg |-> 0, neu |-> 10, pos |-> 0, compound |-> 0]]

(* The csv files of n rows: row i is verse i, its book, chapter and text   *)
(* drawn from the sets given.                                              *)
CsvRows(n, books, chapters, texts) ==
    {[i \in 1..n |-> [id |-> i, b |-> f[i][1], c |-> f[i][2], v |-> i, t |-> f[i][3]]] :
        f \in [1..n -> books \X chapters \X texts]}

InitGlobals ==
    /\ pc = "start"
    /\ nrc_lexicon = NoneLexicon
    /\ bible_df = <<>>
    /\ analyzed_df = <<>>
    /\ status_bar = ""
    /\ result = NoResult

(* Corpora of one verse more than head(10) keeps: the last two verses and  *)
(* the text all the others share vary; equal keys are left in their order  *)
(* or reversed.                                                            *)
LongCsvs ==
    {[i \in 1..(HeadN + 1) |->
         [id |-> i, b |-> 1, c |-> 1, v |-> i,
          t |-> IF i < HeadN THEN first ELSE last[i - HeadN + 1]]] :
        first \in TopTexts, last \in [1..2 -> TopTexts]}

(* Runs that differ in the verses' texts and in what VADER says of them:   *)
(* one chapter, a lexicon file that is missing, empty or the sample.       *)
Init ==
    /\ InitGlobals
    /\ lexFile \in {NoFile, [exists |-> TRUE, lines |-> <<>>],
                    [exists |-> TRUE, lines |-> NRCSample]}
    /\ punkt = TRUE
    /\ sia \in [TopTexts -> PolarityScores]
    /\ \/ \E n \in 1..MaxVerses :
             /\ bible_csv \in CsvRows(n, {1}, {1}, TopTexts)
             /\ sortTie \in Perms(n)
       \/ /\ bible_csv \in LongCsvs
          /\ sortTie \in {[i \in 1..(HeadN + 1) |-> i],
                          [i \in 1..(HeadN + 1) |-> HeadN + 2 - i]}

(* Runs that differ in the books and chapters of the verses *)
InitGroups ==
    /\ InitGlobals
    /\ lexFile = NoFile
    /\ punkt = TRUE
    /\ sia = VaderSample
    /\ \E n \in 1..MaxVerses :
          /\ bible_csv \in CsvRows(n, 1..MaxBook, 1..MaxChapter, VerseTexts)
          /\ sortTie \in Perms(n)

(* Runs that differ in the lexicon file and in the text of the one verse *)
InitLex ==
    /\ InitGlobals
    /\ lexFile \in {NoFile} \cup
                   {[exists |-> TRUE, lines |-> l] : l \in SeqsUpTo(LineKinds, MaxLines)}
    /\ punkt \in BOOLEAN
    /\ \E text \in SeqsUpTo(Words, MaxWords) :
          /\ bible_csv = <<[id |-> 1, b |-> 1, c |-> 1, v |-> 1, t |-> text]>>
          /\ sia = [t \in {text} |-> [neg |-> 0, neu |-> 10, pos |-> 0, compound |-> 0]]
    /\ sortTie = <<1>>

Spec == Init /\ [][Next]_vars

SpecGroups == InitGroups /\ [][NextGroups]_vars

(* Runs of the start-up alone *)
SpecLex == InitLex /\ [][Startup]_vars

---------------------------------------------------------------------------
(* What the claims speak of *)

Recognized == {EMOTIONS[i] : i \in 1..Len(EMOTIONS)}

Serving == pc = "mainloop"

Scored == pc \in {"analyzed", "mainloop"}

(* the mode the program announced when it started *)
StatusLoaded == status_bar = "NRC Emotion Lexicon loaded"

(* the row of the corpus a returned verse is, by its index label *)
CorpusRow(v) == analyzed_df[CHOOSE i \in 1..Len(analyzed_df) : analyzed_df[i].index = v.index]

NonIncreasing(rows, col) ==
    \A r \in 1..(Len(rows) - 1) : CorpusRow(rows[r])[col] >= CorpusRow(rows[r + 1])[col]

Position(seq, x) == CHOOSE i \in 1..Len(seq) : seq[i] = x

(* C1: the mode is fixed at start-up from what the lexicon load returned,  *)
(* and while the program serves, the mode every get_top_verses consults is *)
(* that same mode, also after the lexicon file has appeared on disk.       *)
C1_ModeFixedAtStartup ==
    /\ pc \in {"lexicon", "bible", "analyzed"} =>
          nrc_lexicon = load_nrc_lexicon(lexFile).lexicon
    /\ Serving =>
          /\ Truthy(nrc_lexicon) = StatusLoaded
          /\ result.kind = "top" => result.mode = StatusLoaded

C1_Witness ==
    /\ Serving
    /\ lexFile.exists /\ lexFile.lines = NRCSample
    /\ ~StatusLoaded
    /\ result.kind = "top" /\ ~result.mode /\ result.by = "pos"

(* C2 (as claimed): every verse has its four polarity scores, and the      *)
(* verses have the 8 emotion totals exactly when the lexicon load returned *)
(* a table and not None, however many entries the table holds; all verses  *)
(* have them or none has.                                                  *)
C2_EmotionsIffTableLoaded ==
    Scored =>
        \A i \in 1..Len(analyzed_df) :
            /\ PolarityColumns \subseteq DOMAIN analyzed_df[i]
            /\ (EmotionSet \subseteq DOMAIN analyzed_df[i]) <=> ~nrc_lexicon.isNone
            /\ \/ EmotionSet \subseteq DOMAIN analyzed_df[i]
               \/ EmotionSet \cap DOMAIN analyzed_df[i] = {}

(* C3: for each of the 8 names get_top_verses ranks by the lexicon         *)
(* category of the same name when the lexicon is loaded, and otherwise by  *)
(* pos for Joy, Trust, Anticipation, by neg for Fear, Sadness, Disgust,    *)
(* Anger and by neu for Surprise.                                          *)
CategoryOf(e) == emotions[Position(EMOTIONS, e)]

FallbackOf(e) ==
    IF e \in {"Joy", "Trust", "Anticipation"} THEN "pos"
    ELSE IF e \in {"Fear", "Sadness", "Disgust", "Anger"} THEN "neg"
    ELSE "neu"

ResolvedColumn(e) == IF StatusLoaded THEN CategoryOf(e) ELSE FallbackOf(e)

C3_RanksByResolvedColumn ==
    (Serving /\ result.kind = "top" /\ result.emotion \in Recognized) =>
        LET col == ResolvedColumn(result.emotion)
            returned == {result.rows[r].index : r \in 1..Len(result.rows)}
        IN /\ result.by = col
           /\ NonIncreasing(result.rows, col)
           /\ \A i \in 1..Len(analyzed_df) : \A r \in 1..Len(result.rows) :
                 analyzed_df[i].index \notin returned =>
                    analyzed_df[i][col] <= CorpusRow(result.rows[r])[col]

(* Surprise in polarity-only mode, on a corpus of more than 10 verses: the *)
(* verse left out is not the last of the corpus.                           *)
C3_Witness ==
    /\ Serving /\ ~StatusLoaded
    /\ result.kind = "top" /\ result.emotion = "Surprise" /\ result.by = "neu"
    /\ Len(analyzed_df) > HeadN /\ Len(result.rows) = HeadN
    /\ \E r \in 1..HeadN : result.rows[r].index = HeadN
    /\ CorpusRow(result.rows[1]).neu > CorpusRow(result.rows[HeadN]).neu

(* C4 (as claimed): get_top_verses returns the first min(10, N) verses of  *)
(* the corpus sorted descending by the resolved column with a stable sort: *)
(* among equal scores the verse earlier in the corpus comes first.         *)
StableOrder(df, col) ==
    LET n == Len(df)
        Before(p, q) == \/ df[p][col] > df[q][col]
                        \/ df[p][col] = df[q][col] /\ p < q
    IN [r \in 1..n |->
           CHOOSE p \in 1..n : Cardinality({q \in 1..n : Before(q, p)}) = r - 1]

C4_TopTenStable ==
    (Serving /\ result.kind = "top" /\ result.emotion \in Recognized) =>
        LET order == StableOrder(analyzed_df, result.by)
            k == Min(HeadN, Len(analyzed_df))
        IN /\ Len(result.rows) = k
           /\ \A r \in 1..k : result.rows[r].index = analyzed_df[order[r]].index

(* C5 (as claimed): get_top_verses with a name that is none of the 8       *)
(* signals a rejected request and returns no ranking.                      *)
C5_UnrecognizedRejected ==
    (Serving /\ result.kind = "top" /\ result.emotion \notin Recognized) =>
        result.raised /\ Len(result.rows) = 0

(* C6: rank_books and the grouping of show_sentiment_heatmap hold exactly   *)
(* one entry for each group that has a verse and none for a group without, *)
(* each entry the mean of compound over exactly its group's verses, so the *)
(* groups' sums (count x mean) add up to the sum over all verses.          *)
CompoundSum(rows) == SumSeq([i \in 1..Len(rows) |-> rows[i].compound])

GroupOf(row, by) == [j \in 1..Len(by) |-> row[by[j]]]

MeanOfVerses(by, key) ==
    LET rows == SelectSeq(analyzed_df, LAMBDA row : GroupOf(row, by) = key)
    IN [sum |-> CompoundSum(rows), count |-> Len(rows)]

BooksPresent == {analyzed_df[i].Book : i \in 1..Len(analyzed_df)}

ChaptersPresent == {<<analyzed_df[i].Book, analyzed_df[i].Chapter>> : i \in 1..Len(analyzed_df)}

HeatmapEntries == {k \in DOMAIN result.cells : ~result.cells[k].nan}

C6_OneEntryPerGroupWithItsMean ==
    /\ (Serving /\ result.kind = "books") =>
          LET g == result.groups
          IN /\ {g[r].key : r \in 1..Len(g)} = BooksPresent
             /\ Len(g) = Cardinality(BooksPresent)
             /\ \A r \in 1..Len(g) :
                   g[r].compound = MeanOfVerses(<<"Book">>, <<g[r].key>>)
             /\ SumSeq([r \in 1..Len(g) |-> g[r].compound.sum]) = CompoundSum(analyzed_df)
    /\ (Serving /\ result.kind = "heatmap") =>
          LET index == {result.index[r] : r \in 1..Len(result.index)}
              columns == {result.columns[r] : r \in 1..Len(result.columns)}
              listed == [r \in 1..Len(result.index) * Len(result.columns) |->
                            LET k == <<result.index[((r - 1) \div Len(result.columns)) + 1],
                                       result.columns[((r - 1) % Len(result.columns)) + 1]>>
                            IN IF result.cells[k].nan THEN 0 ELSE result.cells[k].sum]
          IN /\ DOMAIN result.cells = index \X columns
             /\ Len(result.index) = Cardinality(index)
             /\ Len(result.columns) = Cardinality(columns)
             /\ HeatmapEntries = ChaptersPresent
             /\ \A k \in HeatmapEntries :
                   /\ result.cells[k].sum =
                         MeanOfVerses(<<"Book", "Chapter">>, k).sum
                   /\ result.cells[k].count =
                         MeanOfVerses(<<"Book", "Chapter">>, k).count
             /\ SumSeq(listed) = CompoundSum(analyzed_df)

(* a grid with an empty cell and a cell of two verses *)
C6_Witness ==
    /\ Serving /\ result.kind = "heatmap"
    /\ \E k \in DOMAIN result.cells : result.cells[k].nan
    /\ \E k \in HeatmapEntries : result.cells[k].count = 2
    /\ Cardinality(BooksPresent) = 2

(* C7 (as claimed): the groups come in descending order of their mean, and *)
(* groups of equal mean in the order of their first verse in the corpus,   *)
(* for rank_books and for the book+chapter grouping (its groups read off   *)
(* the grid row by row).                                                   *)
FirstVerse(by, key) ==
    CHOOSE i \in 1..Len(analyzed_df) :
        /\ GroupOf(analyzed_df[i], by) = key
        /\ \A j \in 1..(i - 1) : GroupOf(analyzed_df[j], by) # key

RankedWithTies(a, b, firstA, firstB) ==
    /\ ~MeanLt(a, b)
    /\ ~MeanLt(b, a) => firstA < firstB

GridBefore(k1, k2) ==
    \/ Position(result.index, k1[1]) < Position(result.index, k2[1])
    \/ /\ k1[1] = k2[1]
       /\ Position(result.columns, k1[2]) < Position(result.columns, k2[2])

C7_DescendingTiesByFirstAppearance ==
    /\ (Serving /\ result.kind = "books") =>
          \A r \in 1..(Len(result.groups) - 1) :
              RankedWithTies(result.groups[r].compound, result.groups[r + 1].compound,
                             FirstVerse(<<"Book">>, <<result.groups[r].key>>),
                             FirstVerse(<<"Book">>, <<result.groups[r + 1].key>>))
    /\ (Serving /\ result.kind = "heatmap") =>
          \A k1, k2 \in HeatmapEntries :
              GridBefore(k1, k2) =>
                  RankedWithTies(result.cells[k1], result.cells[k2],
                                 FirstVerse(<<"Book", "Chapter">>, k1),
                                 FirstVerse(<<"Book", "Chapter">>, k2))

(* C7 (amended): rank_books returns the books in non-increasing order of   *)
(* their mean, books of equal mean in no fixed order; the book+chapter     *)
(* grouping is not ordered by mean: it is a grid whose rows are the books  *)
(* in ascending order of name and whose columns are the chapters in        *)
(* ascending order of number.                                              *)
C7_BooksDescendingGridByKey ==
    /\ (Serving /\ result.kind = "books") =>
          \A r \in 1..(Len(result.groups) - 1) :
              ~MeanLt(result.groups[r].compound, result.groups[r + 1].compound)
    /\ (Serving /\ result.kind = "heatmap") =>
          /\ \A r \in 1..(Len(result.index) - 1) :
                NameRank[result.index[r]] < NameRank[result.index[r + 1]]
          /\ \A r \in 1..(Len(result.columns) - 1) :
                result.columns[r] < result.columns[r + 1]

(* two books of different mean, the one listed first being the later one   *)
(* in the corpus                                                           *)
C7_Witness ==
    /\ Serving /\ result.kind = "books"
    /\ Len(result.groups) = 2
    /\ MeanLt(result.groups[2].compound, result.groups[1].compound)
    /\ FirstVerse(<<"Book">>, <<result.groups[1].key>>) >
          FirstVerse(<<"Book">>, <<result.groups[2].key>>)

(* C8 (as claimed): load_nrc_lexicon never ends in an error; a missing     *)
(* file gives None, and an existing file gives a table that has the entry  *)
(* of every line of three fields, whatever the other lines are.            *)
C8_LoadNeverFails ==
    /\ pc # "crashed"
    /\ pc = "lexicon" =>
          IF ~lexFile.exists THEN nrc_lexicon.isNone
          ELSE /\ ~nrc_lexicon.isNone
               /\ \A k \in 1..Len(lexFile.lines) :
                     LET parts == strip_split(lexFile.lines[k])
                     IN (Len(parts) = 3 /\ parts[3] \in IntText) =>
                           /\ parts[1] \in DOMAIN nrc_lexicon.dict
                           /\ parts[2] \in DOMAIN nrc_lexicon.dict[parts[1]]

(* C9: analyze_emotions gives exactly the 8 categories, each the sum over  *)
(* the occurrences of lexicon words in the lowercased text of the word's   *)
(* intensity for the category; all zero when tokenization fails.           *)
Intensity(word, category) ==
    IF word \in DOMAIN nrc_lexicon.dict
    THEN IF category \in DOMAIN nrc_lexicon.dict[word]
         THEN nrc_lexicon.dict[word][category]
         ELSE 0
    ELSE 0

ExpectedTotal(text, category) ==
    IF punkt
    THEN SumSeq([i \in 1..Len(text) |-> Intensity(lower(text[i]), category)])
    ELSE 0

VerseColumnNames == {"index", "Book", "Chapter", "Verse", "Text"}

C9_EmotionTotals ==
    (Scored /\ Truthy(nrc_lexicon)) =>
        \A i \in 1..Len(analyzed_df) :
            /\ (DOMAIN analyzed_df[i]) \ (VerseColumnNames \cup PolarityColumns) = EmotionSet
            /\ \A c \in EmotionSet :
                  analyzed_df[i][c] = ExpectedTotal(analyzed_df[i].Text, c)

(* a word of the lexicon written twice, once with a capital *)
C9_Witness ==
    /\ Scored /\ Truthy(nrc_lexicon) /\ punkt
    /\ analyzed_df[1].Text = <<"Light", "light">>
    /\ analyzed_df[1].joy = 4
    /\ analyzed_df[1].fear = 0

(* C10: the queries leave the scored corpus as start-up built it, so every *)
(* answer is the answer the query gives on that corpus, the first time and *)
(* every later time.                                                       *)
BuiltCorpus ==
    analyze_sentiments(load_and_prepare_bible(bible_csv), nrc_lexicon, sia, punkt)

C10_QueriesLeaveCorpus ==
    Serving =>
        /\ analyzed_df = BuiltCorpus
        /\ result.kind = "top" =>
              result = get_top_verses(result.emotion, nrc_lexicon, BuiltCorpus, sortTie).out
        /\ result.kind = "books" => result = rank_books(BuiltCorpus, sortTie).out
        /\ result.kind = "heatmap" => result = heatmap_data(BuiltCorpus).out

(* a ranking whose first verse is not the first of the corpus *)
C10_Witness ==
    /\ Serving /\ result.kind = "top"
    /\ Len(result.rows) >= 2
    /\ result.rows[1].index > 0
    /\ analyzed_df[1].index = 0

===========================================================================
